---- MODULE Spec2Model ----
(***************************************************************************)
(* Model of pe::LockfreeQueue<T, Tag> (src/src/lockfree_queue.cpp), a      *)
(* Michael and Scott lock-free queue over tagged pointers, with hazard     *)
(* pointers for reclamation.  Every atomic access of Enqueue and Dequeue   *)
(* is one step of the calling thread.  Variables below the line "history"  *)
(* are observers: no step of the queue reads them.                         *)
(***************************************************************************)
EXTENDS Integers, Sequences, FiniteSets

\* ---------------------------------------------------------------- bounds
NumThreads == 2
MaxNodes == 3
MaxCalls == 5
MaxValue == 2
LiveCalls == 3

Threads == 1..NumThreads
Addrs == 1..MaxNodes
Vals == 1..MaxValue

\* ----------------------------------------------------- program constants
NullRef == 0
DefaultValue == 0
Slot0 == 0
Slot1 == 1
Empty == -1

VARIABLES
    head, tail,      \* m_head, m_tail: Pointer {m_ptr, m_count}
    next, value,     \* Node::m_next, Node::m_value, by address
    nstate,          \* by address: "free" | "live" | "retired"
    hazard,          \* the hazard context: [thread][slot] -> published address
    pc,              \* each thread's position in its call
    node,            \* Enqueue: local node
    ltail, lhead, lnext, \* locals tail, head, next
    ret,             \* Dequeue: local std::optional<T> ret
    result,          \* what the call hands back to its caller
    calls,           \* calls that may still be invoked
    dtor, destroyed, \* the thread running ~LockfreeQueue, and whether it finished
    gen,             \* the allocator, by address: nodes allocated at it so far
    \* ------------------------------------------------------------ history
    snapGen,         \* by thread: gen of the nodes its snapshots refer to
    absq,            \* the atomic FIFO queue, stepped at linearization points
    linRes,          \* by thread: what the atomic queue answered its call, if it has
    linkWins,        \* by thread: successful link CASes of the current call
    casVal,          \* by thread: the value copied in the iteration whose head CAS won
    sawEmpty,        \* by thread: head.next was null at some instant of the call
    startedEmpty,    \* by thread: Dequeue invoked on an empty queue, no Enqueue since
    outstanding,     \* by value: enqueued occurrences minus returned occurrences
    lastRemoved,     \* the value taken by the latest successful CAS on head
    lastGot,         \* by thread: the value of its latest successful Dequeue
    enqHist,         \* the Enqueue calls so far: by one thread, with increasing values?
    casCount,        \* by slot (h: head, t: tail): values installed in it so far
    snapCas,         \* by thread: casCount of head and of tail when it loaded them
    unlinked,        \* by thread: the sentinel its successful CAS on head replaced
    hpOk,            \* by thread: slots published and since confirmed by a re-validation
    linkSeq,         \* by address: the node's position in the order of linking
    linkedAs         \* by thread: the position its Enqueue linked its node at

progVars == <<head, tail, next, value, nstate, hazard, pc, node, ltail, lhead,
              lnext, ret, result, calls, dtor, destroyed>>
histVars == <<gen, snapGen, absq, linRes, linkWins, casVal, sawEmpty,
              startedEmpty, outstanding, lastRemoved, lastGot, enqHist>>
obsVars == <<casCount, snapCas, unlinked, hpOk, linkSeq, linkedAs>>
vars == <<progVars, histVars, obsVars>>

\* ------------------------------------------------------ Pointer, a Node
Pointer(p, c) == [ptr |-> p, count |-> c]

\* operator== that compares the references and not the tags
PtrEq_RefOnly(a, b) == a.ptr = b.ptr

\* Pointer::operator==
PtrEq(a, b) == (a.ptr = b.ptr) /\ (a.count = b.count)

\* Node{}: a default value and an empty next
NullPointer == Pointer(NullRef, 0)

NoHazards == [s \in {Slot0, Slot1} |-> NullRef]

\* ------------------------------------------------- the hazard context
\* AddHazard(slot, ptr): publish ptr in the calling thread's slot
AddHazard(t, s, p) == hazard' = [hazard EXCEPT ![t][s] = p]

\* the guards' destructors at the end of a loop iteration or at return
ReleaseHazards(t) == hazard' = [hazard EXCEPT ![t] = NoHazards]

\* RetireHazard(ptr): hand the node to the context
RetireHazard(p) == nstate' = [nstate EXCEPT ![p] = "retired"]

Protected(a) == \E t \in Threads : \E s \in {Slot0, Slot1} : hazard[t][s] = a


\* --------------------------------------------------------- node memory
Valid(a, g) == a # NullRef /\ nstate[a] # "free" /\ gen[a] = g

GenOf(a) == IF a = NullRef THEN 0 ELSE gen[a]

\* what a load of a->m_next can give: the field of a node that is allocated, and
\* anything a Pointer can hold when the memory has been handed back
LoadNext(a) ==
    IF nstate[a] # "free" THEN {next[a]}
    ELSE {next[a]} \cup {Pointer(p, 0) : p \in Addrs \cup {NullRef}}

\* what a read of a->m_value can give
LoadValue(a) ==
    IF nstate[a] # "free" THEN {value[a]} ELSE {value[a], DefaultValue} \cup Vals

\* the addresses new can return: any freed address, or an address never used before;
\* the never used ones are interchangeable, so the lowest stands for them all
NeverUsed == {a \in Addrs : gen[a] = 0}
LowestOf(S) == {a \in S : \A b \in S : a <= b}
FreshOrReused == {a \in Addrs : nstate[a] = "free" /\ gen[a] > 0} \cup LowestOf(NeverUsed)
FirstAddrs == LowestOf(Addrs)

InCall(t) == pc[t] # "idle"
InEnqueue(t) == pc[t] \in {"E_LoadTail", "E_AddHazard", "E_Validate", "E_LoadNext",
                           "E_LinkCas", "E_HelpCas", "E_SwingTail", "E_Return"}
InDequeue(t) == pc[t] \in {"D_LoadHead", "D_AddHazard0", "D_Validate", "D_LoadTail",
                           "D_LoadNext", "D_AddHazard1", "D_Revalidate", "D_HelpCas",
                           "D_ReadValue", "D_CasHead", "D_Retire", "D_Return"}

\* head.next is null: the list holds the sentinel alone
LogicallyEmpty == next[head.ptr].ptr = NullRef

\* ---------------------------------------------------------------- Init
\* LockfreeQueue(): a fresh sentinel, head and tail on it with count 0;
\* n calls may follow
InitWith(n) ==
    /\ \E s \in FirstAddrs :
        /\ head = Pointer(s, 0)
        /\ tail = Pointer(s, 0)
        /\ nstate = [a \in Addrs |-> IF a = s THEN "live" ELSE "free"]
        /\ gen = [a \in Addrs |-> IF a = s THEN 1 ELSE 0]
    /\ next = [a \in Addrs |-> NullPointer]
    /\ value = [a \in Addrs |-> DefaultValue]
    /\ hazard = [t \in Threads |-> NoHazards]
    /\ pc = [t \in Threads |-> "idle"]
    /\ node = [t \in Threads |-> NullRef]
    /\ ltail = [t \in Threads |-> NullPointer]
    /\ lhead = [t \in Threads |-> NullPointer]
    /\ lnext = [t \in Threads |-> NullPointer]
    /\ ret = [t \in Threads |-> Empty]
    /\ result = [t \in Threads |-> Empty]
    /\ calls = n
    /\ dtor = {}
    /\ destroyed = FALSE
    /\ snapGen = [t \in Threads |-> [p |-> 0, n |-> 0]]
    /\ absq = <<>>
    /\ linRes = [t \in Threads |-> {}]
    /\ linkWins = [t \in Threads |-> 0]
    /\ casVal = [t \in Threads |-> Empty]
    /\ sawEmpty = [t \in Threads |-> FALSE]
    /\ startedEmpty = [t \in Threads |-> FALSE]
    /\ outstanding = [v \in Vals \cup {DefaultValue} |-> 0]
    /\ lastRemoved = 0
    /\ lastGot = [t \in Threads |-> 0]
    /\ enqHist = [by |-> {}, last |-> 0, ok |-> TRUE]
    /\ casCount = [h |-> 0, t |-> 0]
    /\ snapCas = [t \in Threads |-> [h |-> 0, t |-> 0]]
    /\ unlinked = [t \in Threads |-> NullRef]
    /\ hpOk = [t \in Threads |-> {}]
    /\ linkSeq = [a \in Addrs |-> 0]
    /\ linkedAs = [t \in Threads |-> 0]

Init == InitWith(MaxCalls)

\* ------------------------------------------------------------- Enqueue
\* history: every value installed in head or in tail is counted
TrackCas ==
    casCount' = [h |-> IF head' # head THEN casCount.h + 1 ELSE casCount.h,
                 t |-> IF tail' # tail THEN casCount.t + 1 ELSE casCount.t]

\* history: the slots of t that stay published over the step and that a
\* re-validation has confirmed, the slots S confirmed by this step included
TrackHp(t, S) ==
    hpOk' = [hpOk EXCEPT ![t] =
                {s \in @ \cup S : hazard[t][s] # NullRef /\ hazard'[t][s] = hazard[t][s]}]

\* history: a Dequeue in progress notes every instant at which head.next is null
TrackEmpty ==
    sawEmpty' = [u \in Threads |->
                    sawEmpty[u] \/ (InDequeue(u) /\ next'[head'.ptr].ptr = NullRef)]

\* line 80: Node *node = new Node{value, {}}
Enqueue(t, v) ==
    /\ pc[t] = "idle" /\ dtor = {} /\ ~destroyed /\ calls > 0
    /\ \E a \in FreshOrReused :
        /\ nstate' = [nstate EXCEPT ![a] = "live"]
        /\ value' = [value EXCEPT ![a] = v]
        /\ next' = [next EXCEPT ![a] = NullPointer]
        /\ gen' = [gen EXCEPT ![a] = @ + 1]
        /\ node' = [node EXCEPT ![t] = a]
    /\ calls' = calls - 1
    /\ pc' = [pc EXCEPT ![t] = "E_LoadTail"]
    /\ outstanding' = [outstanding EXCEPT ![v] = @ + 1]
    /\ linkWins' = [linkWins EXCEPT ![t] = 0]
    /\ startedEmpty' = [u \in Threads |-> FALSE]
    /\ enqHist' = IF enqHist.ok /\ enqHist.by \subseteq {t} /\ v > enqHist.last
                  THEN [by |-> {t}, last |-> v, ok |-> TRUE]
                  ELSE [by |-> {}, last |-> 0, ok |-> FALSE]
    /\ UNCHANGED <<head, tail, hazard, ltail, lhead, lnext, ret, result, dtor,
                   destroyed, snapGen, absq, linRes, casVal, lastRemoved, lastGot>>
    /\ TrackEmpty
    /\ UNCHANGED obsVars

\* line 85: tail = m_tail.Load()
E_LoadTail(t) ==
    /\ pc[t] = "E_LoadTail"
    /\ ltail' = [ltail EXCEPT ![t] = tail]
    /\ snapGen' = [snapGen EXCEPT ![t].p = GenOf(tail.ptr)]
    /\ pc' = [pc EXCEPT ![t] = "E_AddHazard"]
    /\ UNCHANGED <<head, tail, next, value, nstate, hazard, node, lhead, lnext, ret,
                   result, calls, dtor, destroyed, gen, absq, linRes, linkWins,
                   casVal, sawEmpty, startedEmpty, outstanding, lastRemoved, lastGot, enqHist>>
    /\ snapCas' = [snapCas EXCEPT ![t].t = casCount.t]
    /\ UNCHANGED <<casCount, unlinked, hpOk, linkSeq, linkedAs>>

\* line 86: auto tail_hazard = m_hp.AddHazard(0, tail.m_ptr)
E_AddHazard(t) ==
    /\ pc[t] = "E_AddHazard"
    /\ AddHazard(t, Slot0, ltail[t].ptr)
    /\ pc' = [pc EXCEPT ![t] = "E_Validate"]
    /\ UNCHANGED <<head, tail, next, value, nstate, node, ltail, lhead, lnext, ret,
                   result, calls, dtor, destroyed, histVars>>
    /\ TrackHp(t, {})
    /\ UNCHANGED <<casCount, snapCas, unlinked, linkSeq, linkedAs>>

\* E_Validate with the re-validation of the snapshot left out
E_Validate_NoCheck(t) ==
    /\ pc[t] = "E_Validate"
    /\ pc' = [pc EXCEPT ![t] = "E_LoadNext"]
    /\ UNCHANGED <<head, tail, next, value, nstate, hazard, node, ltail, lhead, lnext,
                   ret, result, calls, dtor, destroyed, histVars>>
    /\ TrackHp(t, {})
    /\ UNCHANGED <<casCount, snapCas, unlinked, linkSeq, linkedAs>>

\* E_Validate whose continue does not load tail again
E_Validate_NoReload(t) ==
    /\ pc[t] = "E_Validate"
    /\ IF PtrEq(ltail[t], tail)
       THEN /\ pc' = [pc EXCEPT ![t] = "E_LoadNext"]
            /\ UNCHANGED hazard
       ELSE /\ pc' = [pc EXCEPT ![t] = "E_AddHazard"]
            /\ ReleaseHazards(t)
    /\ UNCHANGED <<head, tail, next, value, nstate, node, ltail, lhead, lnext, ret,
                   result, calls, dtor, destroyed, histVars>>
    /\ TrackHp(t, IF PtrEq(ltail[t], tail) THEN {Slot0} ELSE {})
    /\ UNCHANGED <<casCount, snapCas, unlinked, linkSeq, linkedAs>>

\* lines 87-88: if(tail != m_tail.Load()) continue;
E_Validate(t) ==
    /\ pc[t] = "E_Validate"
    /\ IF PtrEq(ltail[t], tail)
       THEN /\ pc' = [pc EXCEPT ![t] = "E_LoadNext"]
            /\ UNCHANGED hazard
       ELSE /\ pc' = [pc EXCEPT ![t] = "E_LoadTail"]
            /\ ReleaseHazards(t)
    /\ UNCHANGED <<head, tail, next, value, nstate, node, ltail, lhead, lnext, ret,
                   result, calls, dtor, destroyed, histVars>>
    /\ TrackHp(t, IF PtrEq(ltail[t], tail) THEN {Slot0} ELSE {})
    /\ UNCHANGED <<casCount, snapCas, unlinked, linkSeq, linkedAs>>

\* lines 90-91: next = tail.m_ptr->m_next.Load(); if(next.m_ptr == nullptr)
E_LoadNext(t) ==
    /\ pc[t] = "E_LoadNext"
    /\ \E n \in LoadNext(ltail[t].ptr) :
        /\ lnext' = [lnext EXCEPT ![t] = n]
        /\ pc' = [pc EXCEPT ![t] = IF n.ptr = NullRef THEN "E_LinkCas" ELSE "E_HelpCas"]
    /\ UNCHANGED <<head, tail, next, value, nstate, hazard, node, ltail, lhead, ret,
                   result, calls, dtor, destroyed, histVars>>
    /\ UNCHANGED obsVars

\* E_LinkCas that leaves the loop whether or not the CAS succeeded
E_LinkCas_IgnoreFailure(t) ==
    /\ pc[t] = "E_LinkCas"
    /\ \E cur \in LoadNext(ltail[t].ptr) :
        IF PtrEq(cur, lnext[t])
        THEN /\ next' = [next EXCEPT ![ltail[t].ptr] =
                            Pointer(node[t], lnext[t].count + 1)]
             /\ absq' = Append(absq, value[node[t]])
             /\ linkWins' = [linkWins EXCEPT ![t] = @ + 1]
             /\ linkSeq' = [linkSeq EXCEPT ![node[t]] = linkSeq[ltail[t].ptr] + 1]
             /\ linkedAs' = [linkedAs EXCEPT ![t] = linkSeq[ltail[t].ptr] + 1]
        ELSE UNCHANGED <<next, absq, linkWins, linkSeq, linkedAs>>
    /\ pc' = [pc EXCEPT ![t] = "E_SwingTail"]
    /\ ReleaseHazards(t)
    /\ UNCHANGED <<head, tail, value, nstate, node, ltail, lhead, lnext, ret, result,
                   calls, dtor, destroyed, gen, snapGen, linRes, casVal,
                   startedEmpty, outstanding, lastRemoved, lastGot, enqHist>>
    /\ TrackEmpty
    /\ TrackHp(t, {})
    /\ UNCHANGED <<casCount, snapCas, unlinked>>

\* E_LinkCas that stores the link without comparing
E_LinkCas_Store(t) ==
    /\ pc[t] = "E_LinkCas"
    /\ next' = [next EXCEPT ![ltail[t].ptr] = Pointer(node[t], lnext[t].count + 1)]
    /\ pc' = [pc EXCEPT ![t] = "E_SwingTail"]
    /\ absq' = Append(absq, value[node[t]])
    /\ linkWins' = [linkWins EXCEPT ![t] = @ + 1]
    /\ linkSeq' = [linkSeq EXCEPT ![node[t]] = linkSeq[ltail[t].ptr] + 1]
    /\ linkedAs' = [linkedAs EXCEPT ![t] = linkSeq[ltail[t].ptr] + 1]
    /\ ReleaseHazards(t)
    /\ UNCHANGED <<head, tail, value, nstate, node, ltail, lhead, lnext, ret, result,
                   calls, dtor, destroyed, gen, snapGen, linRes, casVal,
                   startedEmpty, outstanding, lastRemoved, lastGot, enqHist>>
    /\ TrackEmpty
    /\ TrackHp(t, {})
    /\ UNCHANGED <<casCount, snapCas, unlinked>>

\* lines 92-94: if(tail.m_ptr->m_next.CompareExchange(next, {node, next.m_count + 1}))
\*                  break;
E_LinkCas(t) ==
    /\ pc[t] = "E_LinkCas"
    /\ \E cur \in LoadNext(ltail[t].ptr) :
        IF PtrEq(cur, lnext[t])
        THEN /\ next' = [next EXCEPT ![ltail[t].ptr] =
                            Pointer(node[t], lnext[t].count + 1)]
             /\ pc' = [pc EXCEPT ![t] = "E_SwingTail"]
             /\ absq' = Append(absq, value[node[t]])
             /\ linkWins' = [linkWins EXCEPT ![t] = @ + 1]
             /\ linkSeq' = [linkSeq EXCEPT ![node[t]] = linkSeq[ltail[t].ptr] + 1]
             /\ linkedAs' = [linkedAs EXCEPT ![t] = linkSeq[ltail[t].ptr] + 1]
        ELSE /\ pc' = [pc EXCEPT ![t] = "E_LoadTail"]
             /\ UNCHANGED <<next, absq, linkWins, linkSeq, linkedAs>>
    /\ ReleaseHazards(t)
    /\ UNCHANGED <<head, tail, value, nstate, node, ltail, lhead, lnext, ret, result,
                   calls, dtor, destroyed, gen, snapGen, linRes, casVal,
                   startedEmpty, outstanding, lastRemoved, lastGot, enqHist>>
    /\ TrackEmpty
    /\ TrackHp(t, {})
    /\ UNCHANGED <<casCount, snapCas, unlinked>>

\* E_HelpCas that retries without advancing tail
E_HelpCas_NoHelp(t) ==
    /\ pc[t] = "E_HelpCas"
    /\ ReleaseHazards(t)
    /\ pc' = [pc EXCEPT ![t] = "E_LoadTail"]
    /\ UNCHANGED <<head, tail, next, value, nstate, node, ltail, lhead, lnext, ret,
                   result, calls, dtor, destroyed, histVars>>
    /\ TrackCas
    /\ TrackHp(t, {})
    /\ UNCHANGED <<snapCas, unlinked, linkSeq, linkedAs>>

\* lines 96-97: m_tail.CompareExchange(tail, {next.m_ptr, tail.m_count + 1})
E_HelpCas(t) ==
    /\ pc[t] = "E_HelpCas"
    /\ IF PtrEq(tail, ltail[t])
       THEN tail' = Pointer(lnext[t].ptr, ltail[t].count + 1)
       ELSE UNCHANGED tail
    /\ ReleaseHazards(t)
    /\ pc' = [pc EXCEPT ![t] = "E_LoadTail"]
    /\ UNCHANGED <<head, next, value, nstate, node, ltail, lhead, lnext, ret, result,
                   calls, dtor, destroyed, histVars>>
    /\ TrackCas
    /\ TrackHp(t, {})
    /\ UNCHANGED <<snapCas, unlinked, linkSeq, linkedAs>>

\* E_SwingTail that stores the new tail without comparing
E_SwingTail_Store(t) ==
    /\ pc[t] = "E_SwingTail"
    /\ tail' = Pointer(node[t], ltail[t].count + 1)
    /\ pc' = [pc EXCEPT ![t] = "E_Return"]
    /\ UNCHANGED <<head, next, value, nstate, hazard, node, ltail, lhead, lnext, ret,
                   result, calls, dtor, destroyed, histVars>>
    /\ TrackCas
    /\ UNCHANGED <<snapCas, unlinked, hpOk, linkSeq, linkedAs>>

\* E_SwingTail that leaves tail to the helpers
E_SwingTail_Skipped(t) ==
    /\ pc[t] = "E_SwingTail"
    /\ pc' = [pc EXCEPT ![t] = "E_Return"]
    /\ UNCHANGED <<head, tail, next, value, nstate, hazard, node, ltail, lhead, lnext,
                   ret, result, calls, dtor, destroyed, histVars>>
    /\ UNCHANGED obsVars

\* lines 100-101: m_tail.CompareExchange(tail, {node, tail.m_count + 1})
E_SwingTail(t) ==
    /\ pc[t] = "E_SwingTail"
    /\ IF PtrEq(tail, ltail[t])
       THEN tail' = Pointer(node[t], ltail[t].count + 1)
       ELSE UNCHANGED tail
    /\ pc' = [pc EXCEPT ![t] = "E_Return"]
    /\ UNCHANGED <<head, next, value, nstate, hazard, node, ltail, lhead, lnext, ret,
                   result, calls, dtor, destroyed, histVars>>
    /\ TrackCas
    /\ UNCHANGED <<snapCas, unlinked, hpOk, linkSeq, linkedAs>>

\* line 102: Enqueue returns
E_Return(t) ==
    /\ pc[t] = "E_Return"
    /\ pc' = [pc EXCEPT ![t] = "idle"]
    /\ node' = [node EXCEPT ![t] = NullRef]
    /\ ltail' = [ltail EXCEPT ![t] = NullPointer]
    /\ lnext' = [lnext EXCEPT ![t] = NullPointer]
    /\ snapGen' = [snapGen EXCEPT ![t] = [p |-> 0, n |-> 0]]
    /\ linkWins' = [linkWins EXCEPT ![t] = 0]
    /\ UNCHANGED <<head, tail, next, value, nstate, hazard, lhead, ret, result, calls,
                   dtor, destroyed, gen, absq, linRes, casVal, sawEmpty, startedEmpty,
                   outstanding, lastRemoved, lastGot, enqHist>>
    /\ snapCas' = [snapCas EXCEPT ![t] = [h |-> 0, t |-> 0]]
    /\ linkedAs' = [linkedAs EXCEPT ![t] = 0]
    /\ UNCHANGED <<casCount, unlinked, hpOk, linkSeq>>


\* ------------------------------------------------------------- Dequeue
\* what the atomic queue answers a Dequeue applied now
AbsFront == IF absq = <<>> THEN Empty ELSE Head(absq)

\* lines 106-107: std::optional<T> ret{}; the call begins
BeginDequeue(t) ==
    /\ ret' = [ret EXCEPT ![t] = Empty]
    /\ pc' = [pc EXCEPT ![t] = "D_LoadHead"]
    /\ sawEmpty' = [sawEmpty EXCEPT ![t] = LogicallyEmpty]
    /\ startedEmpty' = [startedEmpty EXCEPT ![t] =
                            LogicallyEmpty /\ \A u \in Threads : ~InEnqueue(u)]
    /\ casVal' = [casVal EXCEPT ![t] = Empty]
    /\ linRes' = [linRes EXCEPT ![t] = {}]

Dequeue(t) ==
    /\ pc[t] = "idle" /\ dtor = {} /\ ~destroyed /\ calls > 0
    /\ calls' = calls - 1
    /\ BeginDequeue(t)
    /\ UNCHANGED <<head, tail, next, value, nstate, hazard, node, ltail, lhead, lnext,
                   result, dtor, destroyed, gen, snapGen, absq, linkWins, outstanding,
                   lastRemoved, lastGot, enqHist>>
    /\ UNCHANGED obsVars

\* line 111: head = m_head.Load()
D_LoadHead(t) ==
    /\ pc[t] = "D_LoadHead"
    /\ lhead' = [lhead EXCEPT ![t] = head]
    /\ snapGen' = [snapGen EXCEPT ![t].p = GenOf(head.ptr)]
    /\ pc' = [pc EXCEPT ![t] = "D_AddHazard0"]
    /\ UNCHANGED <<head, tail, next, value, nstate, hazard, node, ltail, lnext, ret,
                   result, calls, dtor, destroyed, gen, absq, linRes, linkWins,
                   casVal, sawEmpty, startedEmpty, outstanding, lastRemoved, lastGot, enqHist>>
    /\ snapCas' = [snapCas EXCEPT ![t].h = casCount.h]
    /\ UNCHANGED <<casCount, unlinked, hpOk, linkSeq, linkedAs>>

\* line 112: auto head_hazard = m_hp.AddHazard(0, head.m_ptr)
D_AddHazard0(t) ==
    /\ pc[t] = "D_AddHazard0"
    /\ AddHazard(t, Slot0, lhead[t].ptr)
    /\ pc' = [pc EXCEPT ![t] = "D_Validate"]
    /\ UNCHANGED <<head, tail, next, value, nstate, node, ltail, lhead, lnext, ret,
                   result, calls, dtor, destroyed, histVars>>
    /\ TrackHp(t, {})
    /\ UNCHANGED <<casCount, snapCas, unlinked, linkSeq, linkedAs>>

\* lines 113-114: if(head != m_head.Load()) continue;
D_Validate(t) ==
    /\ pc[t] = "D_Validate"
    /\ IF PtrEq(lhead[t], head)
       THEN /\ pc' = [pc EXCEPT ![t] = "D_LoadTail"]
            /\ UNCHANGED hazard
       ELSE /\ pc' = [pc EXCEPT ![t] = "D_LoadHead"]
            /\ ReleaseHazards(t)
    /\ UNCHANGED <<head, tail, next, value, nstate, node, ltail, lhead, lnext, ret,
                   result, calls, dtor, destroyed, histVars>>
    /\ TrackHp(t, IF PtrEq(lhead[t], head) THEN {Slot0} ELSE {})
    /\ UNCHANGED <<casCount, snapCas, unlinked, linkSeq, linkedAs>>

\* line 116: tail = m_tail.Load()
D_LoadTail(t) ==
    /\ pc[t] = "D_LoadTail"
    /\ ltail' = [ltail EXCEPT ![t] = tail]
    /\ pc' = [pc EXCEPT ![t] = "D_LoadNext"]
    /\ UNCHANGED <<head, tail, next, value, nstate, hazard, node, lhead, lnext, ret,
                   result, calls, dtor, destroyed, histVars>>
    /\ snapCas' = [snapCas EXCEPT ![t].t = casCount.t]
    /\ UNCHANGED <<casCount, unlinked, hpOk, linkSeq, linkedAs>>

\* line 117: next = head.m_ptr->m_next.Load()
D_LoadNext(t) ==
    /\ pc[t] = "D_LoadNext"
    /\ \E n \in LoadNext(lhead[t].ptr) :
        /\ lnext' = [lnext EXCEPT ![t] = n]
        /\ snapGen' = [snapGen EXCEPT ![t].n = GenOf(n.ptr)]
        /\ linRes' = [linRes EXCEPT ![t] = IF n.ptr = NullRef THEN {AbsFront} ELSE @]
    /\ pc' = [pc EXCEPT ![t] = "D_AddHazard1"]
    /\ UNCHANGED <<head, tail, next, value, nstate, hazard, node, ltail, lhead, ret,
                   result, calls, dtor, destroyed, gen, absq, linkWins, casVal,
                   sawEmpty, startedEmpty, outstanding, lastRemoved, lastGot, enqHist>>
    /\ UNCHANGED obsVars

\* D_AddHazard1 that publishes nothing
D_AddHazard1_Skipped(t) ==
    /\ pc[t] = "D_AddHazard1"
    /\ pc' = [pc EXCEPT ![t] = "D_Revalidate"]
    /\ UNCHANGED <<head, tail, next, value, nstate, hazard, node, ltail, lhead, lnext,
                   ret, result, calls, dtor, destroyed, histVars>>
    /\ TrackHp(t, {})
    /\ UNCHANGED <<casCount, snapCas, unlinked, linkSeq, linkedAs>>

\* line 118: auto next_hazard = m_hp.AddHazard(1, next.m_ptr)
D_AddHazard1(t) ==
    /\ pc[t] = "D_AddHazard1"
    /\ AddHazard(t, Slot1, lnext[t].ptr)
    /\ pc' = [pc EXCEPT ![t] = "D_Revalidate"]
    /\ UNCHANGED <<head, tail, next, value, nstate, node, ltail, lhead, lnext, ret,
                   result, calls, dtor, destroyed, histVars>>
    /\ TrackHp(t, {})
    /\ UNCHANGED <<casCount, snapCas, unlinked, linkSeq, linkedAs>>

\* D_Revalidate that takes head.m_ptr == tail.m_ptr for an empty queue
D_Revalidate_HeadIsTail(t) ==
    /\ pc[t] = "D_Revalidate"
    /\ IF ~PtrEq(lhead[t], head)
       THEN /\ pc' = [pc EXCEPT ![t] = "D_LoadHead"]
            /\ ReleaseHazards(t)
            /\ UNCHANGED result
       ELSE IF lnext[t].ptr = NullRef \/ lhead[t].ptr = ltail[t].ptr
       THEN /\ pc' = [pc EXCEPT ![t] = "D_Return"]
            /\ ReleaseHazards(t)
            /\ result' = [result EXCEPT ![t] = Empty]
       ELSE /\ pc' = [pc EXCEPT ![t] = "D_ReadValue"]
            /\ UNCHANGED <<hazard, result>>
    /\ UNCHANGED <<head, tail, next, value, nstate, node, ltail, lhead, lnext, ret,
                   calls, dtor, destroyed, histVars>>
    /\ TrackHp(t, IF PtrEq(lhead[t], head) THEN {Slot0, Slot1} ELSE {})
    /\ UNCHANGED <<casCount, snapCas, unlinked, linkSeq, linkedAs>>

\* D_Revalidate without the test of next.m_ptr against nullptr
D_Revalidate_NoNullCheck(t) ==
    /\ pc[t] = "D_Revalidate"
    /\ IF ~PtrEq(lhead[t], head)
       THEN /\ pc' = [pc EXCEPT ![t] = "D_LoadHead"]
            /\ ReleaseHazards(t)
       ELSE /\ pc' = [pc EXCEPT ![t] =
                        IF lhead[t].ptr = ltail[t].ptr THEN "D_HelpCas"
                                                       ELSE "D_ReadValue"]
            /\ UNCHANGED hazard
    /\ UNCHANGED <<head, tail, next, value, nstate, node, ltail, lhead, lnext, ret,
                   result, calls, dtor, destroyed, histVars>>
    /\ TrackHp(t, IF PtrEq(lhead[t], head) THEN {Slot0, Slot1} ELSE {})
    /\ UNCHANGED <<casCount, snapCas, unlinked, linkSeq, linkedAs>>

\* D_Revalidate that returns ret where the code returns std::nullopt
D_Revalidate_ReturnRet(t) ==
    /\ pc[t] = "D_Revalidate"
    /\ IF ~PtrEq(lhead[t], head)
       THEN /\ pc' = [pc EXCEPT ![t] = "D_LoadHead"]
            /\ ReleaseHazards(t)
            /\ UNCHANGED result
       ELSE IF lnext[t].ptr = NullRef
       THEN /\ pc' = [pc EXCEPT ![t] = "D_Return"]
            /\ ReleaseHazards(t)
            /\ result' = [result EXCEPT ![t] = ret[t]]
       ELSE /\ pc' = [pc EXCEPT ![t] =
                        IF lhead[t].ptr = ltail[t].ptr THEN "D_HelpCas"
                                                       ELSE "D_ReadValue"]
            /\ UNCHANGED <<hazard, result>>
    /\ UNCHANGED <<head, tail, next, value, nstate, node, ltail, lhead, lnext, ret,
                   calls, dtor, destroyed, histVars>>
    /\ TrackHp(t, IF PtrEq(lhead[t], head) THEN {Slot0, Slot1} ELSE {})
    /\ UNCHANGED <<casCount, snapCas, unlinked, linkSeq, linkedAs>>

\* D_Revalidate without the comparison of head.m_ptr with tail.m_ptr
D_Revalidate_NoTailTest(t) ==
    /\ pc[t] = "D_Revalidate"
    /\ IF ~PtrEq(lhead[t], head)
       THEN /\ pc' = [pc EXCEPT ![t] = "D_LoadHead"]
            /\ ReleaseHazards(t)
            /\ UNCHANGED result
       ELSE IF lnext[t].ptr = NullRef
       THEN /\ pc' = [pc EXCEPT ![t] = "D_Return"]
            /\ ReleaseHazards(t)
            /\ result' = [result EXCEPT ![t] = Empty]
       ELSE /\ pc' = [pc EXCEPT ![t] = "D_ReadValue"]
            /\ UNCHANGED <<hazard, result>>
    /\ UNCHANGED <<head, tail, next, value, nstate, node, ltail, lhead, lnext, ret,
                   calls, dtor, destroyed, histVars>>
    /\ TrackHp(t, IF PtrEq(lhead[t], head) THEN {Slot0, Slot1} ELSE {})
    /\ UNCHANGED <<casCount, snapCas, unlinked, linkSeq, linkedAs>>

\* lines 120-126: if(head != m_head.Load()) continue;
\*                if(next.m_ptr == nullptr) return std::nullopt;
\*                if(head.m_ptr == tail.m_ptr) ...
D_Revalidate(t) ==
    /\ pc[t] = "D_Revalidate"
    /\ IF ~PtrEq(lhead[t], head)
       THEN /\ pc' = [pc EXCEPT ![t] = "D_LoadHead"]
            /\ ReleaseHazards(t)
            /\ UNCHANGED result
       ELSE IF lnext[t].ptr = NullRef
       THEN /\ pc' = [pc EXCEPT ![t] = "D_Return"]
            /\ ReleaseHazards(t)
            /\ result' = [result EXCEPT ![t] = Empty]
       ELSE /\ pc' = [pc EXCEPT ![t] =
                        IF lhead[t].ptr = ltail[t].ptr THEN "D_HelpCas"
                                                       ELSE "D_ReadValue"]
            /\ UNCHANGED <<hazard, result>>
    /\ UNCHANGED <<head, tail, next, value, nstate, node, ltail, lhead, lnext, ret,
                   calls, dtor, destroyed, histVars>>
    /\ TrackHp(t, IF PtrEq(lhead[t], head) THEN {Slot0, Slot1} ELSE {})
    /\ UNCHANGED <<casCount, snapCas, unlinked, linkSeq, linkedAs>>

\* D_HelpCas that retries without advancing tail
D_HelpCas_NoHelp(t) ==
    /\ pc[t] = "D_HelpCas"
    /\ ReleaseHazards(t)
    /\ pc' = [pc EXCEPT ![t] = "D_LoadHead"]
    /\ UNCHANGED <<head, tail, next, value, nstate, node, ltail, lhead, lnext, ret,
                   result, calls, dtor, destroyed, histVars>>
    /\ TrackCas
    /\ TrackHp(t, {})
    /\ UNCHANGED <<snapCas, unlinked, linkSeq, linkedAs>>

\* lines 127-129: m_tail.CompareExchange(tail, {next.m_ptr, tail.m_count + 1}); continue;
D_HelpCas(t) ==
    /\ pc[t] = "D_HelpCas"
    /\ IF PtrEq(tail, ltail[t])
       THEN tail' = Pointer(lnext[t].ptr, ltail[t].count + 1)
       ELSE UNCHANGED tail
    /\ ReleaseHazards(t)
    /\ pc' = [pc EXCEPT ![t] = "D_LoadHead"]
    /\ UNCHANGED <<head, next, value, nstate, node, ltail, lhead, lnext, ret, result,
                   calls, dtor, destroyed, histVars>>
    /\ TrackCas
    /\ TrackHp(t, {})
    /\ UNCHANGED <<snapCas, unlinked, linkSeq, linkedAs>>

\* line 135: ret = next.m_ptr->m_value
D_ReadValue(t) ==
    /\ pc[t] = "D_ReadValue"
    /\ \E v \in LoadValue(lnext[t].ptr) : ret' = [ret EXCEPT ![t] = v]
    /\ pc' = [pc EXCEPT ![t] = "D_CasHead"]
    /\ UNCHANGED <<head, tail, next, value, nstate, hazard, node, ltail, lhead, lnext,
                   result, calls, dtor, destroyed, histVars>>
    /\ UNCHANGED obsVars

\* D_CasHead that leaves the loop whether or not the CAS succeeded
D_CasHead_IgnoreFailure(t) ==
    /\ pc[t] = "D_CasHead"
    /\ IF PtrEq(head, lhead[t])
       THEN /\ head' = Pointer(lnext[t].ptr, lhead[t].count + 1)
            /\ linRes' = [linRes EXCEPT ![t] = {AbsFront}]
            /\ absq' = IF absq = <<>> THEN absq ELSE Tail(absq)
            /\ casVal' = [casVal EXCEPT ![t] = ret[t]]
            /\ lastRemoved' = ret[t]
            /\ unlinked' = [unlinked EXCEPT ![t] = lhead[t].ptr]
       ELSE UNCHANGED <<head, linRes, absq, casVal, lastRemoved, unlinked>>
    /\ pc' = [pc EXCEPT ![t] = "D_Retire"]
    /\ ReleaseHazards(t)
    /\ UNCHANGED <<tail, next, value, nstate, node, ltail, lhead, lnext, ret, result,
                   calls, dtor, destroyed, gen, snapGen, linkWins, startedEmpty,
                   outstanding, lastGot, enqHist>>
    /\ TrackEmpty
    /\ TrackCas
    /\ TrackHp(t, {})
    /\ UNCHANGED <<snapCas, linkSeq, linkedAs>>

\* D_CasHead that installs the new head under the tag of the old one
D_CasHead_SameTag(t) ==
    /\ pc[t] = "D_CasHead"
    /\ IF PtrEq(head, lhead[t])
       THEN /\ head' = Pointer(lnext[t].ptr, lhead[t].count)
            /\ pc' = [pc EXCEPT ![t] = "D_Retire"]
            /\ linRes' = [linRes EXCEPT ![t] = {AbsFront}]
            /\ absq' = IF absq = <<>> THEN absq ELSE Tail(absq)
            /\ casVal' = [casVal EXCEPT ![t] = ret[t]]
            /\ lastRemoved' = ret[t]
            /\ unlinked' = [unlinked EXCEPT ![t] = lhead[t].ptr]
       ELSE /\ pc' = [pc EXCEPT ![t] = "D_LoadHead"]
            /\ UNCHANGED <<head, linRes, absq, casVal, lastRemoved, unlinked>>
    /\ ReleaseHazards(t)
    /\ UNCHANGED <<tail, next, value, nstate, node, ltail, lhead, lnext, ret, result,
                   calls, dtor, destroyed, gen, snapGen, linkWins, startedEmpty,
                   outstanding, lastGot, enqHist>>
    /\ TrackEmpty
    /\ TrackCas
    /\ TrackHp(t, {})
    /\ UNCHANGED <<snapCas, linkSeq, linkedAs>>

\* D_CasHead whose guards outlive the loop
D_CasHead_KeepHazards(t) ==
    /\ pc[t] = "D_CasHead"
    /\ IF PtrEq(head, lhead[t])
       THEN /\ head' = Pointer(lnext[t].ptr, lhead[t].count + 1)
            /\ pc' = [pc EXCEPT ![t] = "D_Retire"]
            /\ linRes' = [linRes EXCEPT ![t] = {AbsFront}]
            /\ absq' = IF absq = <<>> THEN absq ELSE Tail(absq)
            /\ casVal' = [casVal EXCEPT ![t] = ret[t]]
            /\ lastRemoved' = ret[t]
            /\ unlinked' = [unlinked EXCEPT ![t] = lhead[t].ptr]
            /\ UNCHANGED hazard
       ELSE /\ pc' = [pc EXCEPT ![t] = "D_LoadHead"]
            /\ UNCHANGED <<head, linRes, absq, casVal, lastRemoved, unlinked>>
            /\ ReleaseHazards(t)
    /\ UNCHANGED <<tail, next, value, nstate, node, ltail, lhead, lnext, ret, result,
                   calls, dtor, destroyed, gen, snapGen, linkWins, startedEmpty,
                   outstanding, lastGot, enqHist>>
    /\ TrackEmpty
    /\ TrackCas
    /\ TrackHp(t, {})
    /\ UNCHANGED <<snapCas, linkSeq, linkedAs>>

\* lines 136-138: if(m_head.CompareExchange(head, {next.m_ptr, head.m_count + 1})) break;
D_CasHead(t) ==
    /\ pc[t] = "D_CasHead"
    /\ IF PtrEq(head, lhead[t])
       THEN /\ head' = Pointer(lnext[t].ptr, lhead[t].count + 1)
            /\ pc' = [pc EXCEPT ![t] = "D_Retire"]
            /\ linRes' = [linRes EXCEPT ![t] = {AbsFront}]
            /\ absq' = IF absq = <<>> THEN absq ELSE Tail(absq)
            /\ casVal' = [casVal EXCEPT ![t] = ret[t]]
            /\ lastRemoved' = ret[t]
            /\ unlinked' = [unlinked EXCEPT ![t] = lhead[t].ptr]
       ELSE /\ pc' = [pc EXCEPT ![t] = "D_LoadHead"]
            /\ UNCHANGED <<head, linRes, absq, casVal, lastRemoved, unlinked>>
    /\ ReleaseHazards(t)
    /\ UNCHANGED <<tail, next, value, nstate, node, ltail, lhead, lnext, ret, result,
                   calls, dtor, destroyed, gen, snapGen, linkWins, startedEmpty,
                   outstanding, lastGot, enqHist>>
    /\ TrackEmpty
    /\ TrackCas
    /\ TrackHp(t, {})
    /\ UNCHANGED <<snapCas, linkSeq, linkedAs>>

\* D_Retire that retires the new sentinel in place of the old one
D_Retire_NewHead(t) ==
    /\ pc[t] = "D_Retire"
    /\ RetireHazard(lnext[t].ptr)
    /\ result' = [result EXCEPT ![t] = ret[t]]
    /\ pc' = [pc EXCEPT ![t] = "D_Return"]
    /\ UNCHANGED <<head, tail, next, value, hazard, node, ltail, lhead, lnext, ret,
                   calls, dtor, destroyed, histVars>>
    /\ UNCHANGED obsVars

\* lines 140-141: m_hp.RetireHazard(head.m_ptr); return ret;
D_Retire(t) ==
    /\ pc[t] = "D_Retire"
    /\ RetireHazard(lhead[t].ptr)
    /\ result' = [result EXCEPT ![t] = ret[t]]
    /\ pc' = [pc EXCEPT ![t] = "D_Return"]
    /\ UNCHANGED <<head, tail, next, value, hazard, node, ltail, lhead, lnext, ret,
                   calls, dtor, destroyed, histVars>>
    /\ UNCHANGED obsVars

\* the caller has the result: the call's locals are gone
EndDequeue(t) ==
    /\ ltail' = [ltail EXCEPT ![t] = NullPointer]
    /\ lhead' = [lhead EXCEPT ![t] = NullPointer]
    /\ lnext' = [lnext EXCEPT ![t] = NullPointer]
    /\ result' = [result EXCEPT ![t] = Empty]
    /\ snapGen' = [snapGen EXCEPT ![t] = [p |-> 0, n |-> 0]]
    /\ outstanding' = IF result[t] = Empty THEN outstanding
                      ELSE [outstanding EXCEPT ![result[t]] = @ - 1]
    /\ lastGot' = IF result[t] = Empty THEN lastGot
                  ELSE [lastGot EXCEPT ![t] = result[t]]
    /\ snapCas' = [snapCas EXCEPT ![t] = [h |-> 0, t |-> 0]]
    /\ unlinked' = [unlinked EXCEPT ![t] = NullRef]

\* Dequeue returns to a caller other than the destructor
D_Return(t) ==
    /\ pc[t] = "D_Return" /\ t \notin dtor
    /\ pc' = [pc EXCEPT ![t] = "idle"]
    /\ EndDequeue(t)
    /\ ret' = [ret EXCEPT ![t] = Empty]
    /\ linRes' = [linRes EXCEPT ![t] = {}]
    /\ casVal' = [casVal EXCEPT ![t] = Empty]
    /\ sawEmpty' = [sawEmpty EXCEPT ![t] = FALSE]
    /\ startedEmpty' = [startedEmpty EXCEPT ![t] = FALSE]
    /\ UNCHANGED <<head, tail, next, value, nstate, hazard, node, calls, dtor,
                   destroyed, gen, absq, linkWins, lastRemoved, enqHist>>
    /\ UNCHANGED <<casCount, hpOk, linkSeq, linkedAs>>

\* ------------------------------------------------------ ~LockfreeQueue
\* lines 69-73: the destructor runs with no call in progress; its first Dequeue
Destructor(t) ==
    /\ dtor = {} /\ ~destroyed
    /\ \A u \in Threads : pc[u] = "idle"
    /\ dtor' = {t}
    /\ BeginDequeue(t)
    /\ UNCHANGED <<head, tail, next, value, nstate, hazard, node, ltail, lhead, lnext,
                   result, calls, destroyed, gen, snapGen, absq, linkWins, outstanding,
                   lastRemoved, lastGot, enqHist>>
    /\ UNCHANGED obsVars

\* lines 72-74: do{ value = Dequeue(); }while(value.has_value());
Dtor_Loop(t) ==
    /\ pc[t] = "D_Return" /\ t \in dtor
    /\ EndDequeue(t)
    /\ IF result[t] # Empty
       THEN /\ BeginDequeue(t)
            /\ UNCHANGED <<dtor, destroyed>>
       ELSE /\ pc' = [pc EXCEPT ![t] = "idle"]
            /\ dtor' = {}
            /\ destroyed' = TRUE
            /\ ret' = [ret EXCEPT ![t] = Empty]
            /\ linRes' = [linRes EXCEPT ![t] = {}]
            /\ casVal' = [casVal EXCEPT ![t] = Empty]
            /\ sawEmpty' = [sawEmpty EXCEPT ![t] = FALSE]
            /\ startedEmpty' = [startedEmpty EXCEPT ![t] = FALSE]
    /\ UNCHANGED <<head, tail, next, value, nstate, hazard, node, calls, gen, absq,
                   linkWins, lastRemoved, enqHist>>
    /\ UNCHANGED <<casCount, hpOk, linkSeq, linkedAs>>

\* ---------------------------------------------- the hazard context frees
\* a retired node is freed once no slot of any thread publishes it
Reclaim(a) ==
    /\ nstate[a] = "retired"
    /\ ~Protected(a)
    /\ nstate' = [nstate EXCEPT ![a] = "free"]
    /\ next' = [next EXCEPT ![a] = NullPointer]
    /\ value' = [value EXCEPT ![a] = DefaultValue]
    /\ UNCHANGED <<head, tail, hazard, pc, node, ltail, lhead, lnext, ret, result,
                   calls, dtor, destroyed, gen, snapGen, absq, linRes, linkWins,
                   casVal, startedEmpty, outstanding, lastRemoved, lastGot, enqHist>>
    /\ TrackEmpty
    /\ linkSeq' = [linkSeq EXCEPT ![a] = 0]
    /\ UNCHANGED <<casCount, snapCas, unlinked, hpOk, linkedAs>>

\* ------------------------------------------------------------ the steps
EnqueueStep(t) ==
    \/ E_LoadTail(t) \/ E_AddHazard(t) \/ E_Validate(t) \/ E_LoadNext(t)
    \/ E_LinkCas(t) \/ E_HelpCas(t) \/ E_SwingTail(t) \/ E_Return(t)

DequeueStep(t) ==
    \/ D_LoadHead(t) \/ D_AddHazard0(t) \/ D_Validate(t) \/ D_LoadTail(t)
    \/ D_LoadNext(t) \/ D_AddHazard1(t) \/ D_Revalidate(t) \/ D_HelpCas(t)
    \/ D_ReadValue(t) \/ D_CasHead(t) \/ D_Retire(t) \/ D_Return(t)

\* a step of a call in progress
Step(t) == EnqueueStep(t) \/ DequeueStep(t)

Next ==
    \/ \E t \in Threads : \E v \in Vals : Enqueue(t, v)
    \/ \E t \in Threads : Dequeue(t)
    \/ \E t \in Threads : Destructor(t)
    \/ \E t \in Threads : Dtor_Loop(t)
    \/ \E t \in Threads : Step(t)
    \/ \E a \in Addrs : Reclaim(a)

Spec == Init /\ [][Next]_vars

\* the calls alone, the queue living on
InitLive == InitWith(LiveCalls)

NextLive ==
    \/ \E t \in Threads : \E v \in Vals : Enqueue(t, v)
    \/ \E t \in Threads : Dequeue(t)
    \/ \E t \in Threads : Step(t)
    \/ \E a \in Addrs : Reclaim(a)

\* steps keep being taken while a call is pending, by whichever thread
SpecLockFree ==
    InitLive /\ [][NextLive]_vars /\ WF_vars(\E t \in Threads : Step(t))

\* every thread with a pending call keeps being scheduled
SpecFair ==
    InitLive /\ [][NextLive]_vars /\ \A t \in Threads : WF_vars(Step(t))

\* every thread with a pending call keeps being scheduled, except that a thread may
\* stop for good between its link CAS and its CAS on tail
SpecStall ==
    InitLive /\ [][NextLive]_vars
        /\ \A t \in Threads : WF_vars(Step(t) /\ pc[t] # "E_SwingTail")

\* calls not yet returned: those in progress and those still to be invoked
Pending == calls + Cardinality({t \in Threads : InCall(t)})

\* ------------------------------------------------------------ the list
\* the nodes met by following m_next from a, up to a null or a node met before
RECURSIVE ChainFrom(_, _)
ChainFrom(a, seen) ==
    IF a = NullRef \/ a \in seen THEN <<>>
    ELSE <<a>> \o ChainFrom(next[a].ptr, seen \cup {a})

\* the list from the sentinel on, and its last node
Chain == ChainFrom(head.ptr, {})
LastNode == Chain[Len(Chain)]

\* the stage of the node at address a: 1 allocated by an Enqueue that has not linked
\* it, 2 linked behind the sentinel, 3 sentinel (until RetireHazard is called for
\* it), 4 retired, 5 freed; 0 if it is in none of these
OnList(a) == \E i \in DOMAIN Chain : Chain[i] = a

Stage(a) ==
    IF nstate[a] = "free" THEN 5
    ELSE IF nstate[a] = "retired" THEN 4
    ELSE IF a = head.ptr THEN 3
    ELSE IF OnList(a) THEN 2
    ELSE IF \E t \in Threads : /\ node[t] = a
                                /\ pc[t] \in {"E_LoadTail", "E_AddHazard", "E_Validate",
                                              "E_LoadNext", "E_LinkCas", "E_HelpCas"}
         THEN 1
    ELSE IF \E t \in Threads : pc[t] = "D_Retire" /\ lhead[t].ptr = a THEN 3
    ELSE 0

\* ------------------------------------------------------------ the claims

\* C1: every Dequeue returns what the atomic FIFO queue answered at the call's
\* linearization point (the successful CAS on head, or the load of head.next that
\* gave null), the atomic queue being appended to at each successful link CAS.
C1_Linearizable ==
    \A t \in Threads : pc[t] = "D_Return" => linRes[t] = {result[t]}

\* a Dequeue hands back a value while the other thread is inside an Enqueue and a
\* value is still queued
C1_Witness ==
    \E t \in Threads : \E u \in Threads \ {t} :
        /\ pc[t] = "D_Return" /\ result[t] \in Vals
        /\ InEnqueue(u) /\ pc[u] # "E_Return"
        /\ absq # <<>>

\* C2: no value occurrence is returned more often than it was enqueued and nothing
\* is returned that was not enqueued; once the queue has been drained with no call
\* in progress, what was returned is exactly what was enqueued.
C2_NoLossNoDup ==
    /\ \A v \in DOMAIN outstanding : outstanding[v] >= 0
    /\ destroyed => \A v \in DOMAIN outstanding : outstanding[v] = 0

C2_Witness ==
    /\ destroyed /\ calls = 0
    /\ lastRemoved \in Vals
    /\ \E a \in Addrs : gen[a] >= 2

\* C3: a thread about to read or CAS the next field of its tail or head snapshot,
\* or to copy the value of its next snapshot, finds there the node its snapshot
\* referred to, not yet freed.
C3_MemorySafety ==
    \A t \in Threads :
        /\ pc[t] \in {"E_LoadNext", "E_LinkCas"} => Valid(ltail[t].ptr, snapGen[t].p)
        /\ pc[t] = "D_LoadNext" => Valid(lhead[t].ptr, snapGen[t].p)
        /\ pc[t] = "D_ReadValue" => Valid(lnext[t].ptr, snapGen[t].n)

\* a value is about to be copied out of a node at a reused address while another
\* node waits to be freed
C3_Witness ==
    \E t \in Threads :
        /\ pc[t] = "D_ReadValue"
        /\ gen[lnext[t].ptr] >= 2
        /\ \E a \in Addrs : nstate[a] = "retired"

\* C4: when the destructor has finished, no node allocated by the queue is left
\* un-retired (K data nodes and the sentinel make K+1 retired nodes).
C4_DrainRetiresAll ==
    destroyed => \A a \in Addrs : nstate[a] # "live"

\* C5: as long as every Enqueue so far came from one thread with strictly
\* increasing values, the values taken by the successful CASes on head are strictly
\* increasing, and so is what one thread gets from its successive Dequeue calls.
C5_SingleProducerFifo ==
    [][enqHist.ok =>
        \A t \in Threads :
          /\ (pc[t] = "D_CasHead" /\ pc'[t] = "D_Retire") => ret[t] > lastRemoved
          /\ (pc[t] = "D_Return" /\ result[t] # Empty) => result[t] > lastGot[t]
      ]_vars

\* one producer so far, and one thread returns a larger value than the other got
C5_Witness ==
    \E t \in Threads : \E u \in Threads \ {t} :
        /\ enqHist.ok
        /\ lastGot[u] \in Vals
        /\ pc[t] = "D_Return" /\ result[t] \in Vals /\ result[t] > lastGot[u]

\* C7: a Dequeue that returns empty saw head.next null at some instant between its
\* invocation and its return.
C7_EmptyOnlyIfEmpty ==
    \A t \in Threads : (pc[t] = "D_Return" /\ result[t] = Empty) => sawEmpty[t]

\* a Dequeue returns empty although a value is queued by the time it returns
C7_Witness ==
    \E t \in Threads : pc[t] = "D_Return" /\ result[t] = Empty /\ ~LogicallyEmpty

\* C8: a Dequeue invoked on a queue that holds the sentinel alone, with no Enqueue in
\* flight then or since, changes neither head, tail, a next field nor the state of a
\* node, and returns empty.
C8_EmptyIdempotent ==
    [][\A t \in Threads :
          (startedEmpty[t] /\ pc'[t] # pc[t]) =>
              /\ head' = head /\ tail' = tail /\ next' = next /\ nstate' = nstate
              /\ pc'[t] = "D_Return" => result'[t] = Empty
      ]_vars

\* two Dequeue calls on an empty queue whose sentinel once held a value
C8_Witness ==
    \E t \in Threads : \E u \in Threads \ {t} :
        /\ startedEmpty[t] /\ pc[t] = "D_Return" /\ result[t] = Empty
        /\ startedEmpty[u] /\ InDequeue(u)
        /\ value[head.ptr] \in Vals

\* C9: Enqueue returns after exactly one successful link CAS of its own; Dequeue
\* returns the value copied in the iteration whose CAS on head succeeded, and empty
\* when no CAS of the call succeeded, whatever an earlier iteration copied.
C9_NoFailedCasSurfaced ==
    \A t \in Threads :
        /\ pc[t] = "E_Return" => linkWins[t] = 1
        /\ pc[t] = "D_Return" => result[t] = casVal[t]

\* a Dequeue returns empty while holding the copy of an iteration whose CAS failed
C9_Witness ==
    \E t \in Threads : pc[t] = "D_Return" /\ result[t] = Empty /\ ret[t] \in Vals


\* C6: whenever a call is in progress, some call returns after finitely many steps,
\* whichever threads take those steps.
C6_LockFree ==
    \A n \in 1..LiveCalls :
        (Pending = n /\ \E t \in Threads : InCall(t)) ~> (Pending < n)

\* one thread has linked its node and not yet advanced tail; the other is inside
\* a call and finds tail behind
C6_Witness ==
    \E t \in Threads : \E u \in Threads \ {t} :
        /\ pc[t] = "E_SwingTail" /\ PtrEq(tail, ltail[t])
        /\ pc[u] \in {"E_HelpCas", "D_HelpCas"}

\* C10: with finitely many calls and every thread with a pending call scheduled
\* again and again, every call returns.
C10_Termination ==
    \A t \in Threads : InCall(t) ~> ~InCall(t)

\* a thread has to retry because the other changed tail or head under it
C10_Witness ==
    \E t \in Threads :
        \/ pc[t] = "E_Validate" /\ ~PtrEq(ltail[t], tail)
        \/ pc[t] = "D_CasHead" /\ ~PtrEq(lhead[t], head)

\* C11: every value installed in head, in tail or in the next field of an allocated
\* node carries the tag of the value it replaces plus one, whatever the reference
\* installed; so the tag of a slot only grows and no (reference, tag) pair comes back.
C11_TagMonotonic ==
    [][/\ head' # head => head'.count = head.count + 1
       /\ tail' # tail => tail'.count = tail.count + 1
       /\ \A a \in Addrs :
            (gen'[a] = gen[a] /\ nstate[a] # "free" /\ nstate'[a] # "free"
                /\ next'[a] # next[a]) => next'[a].count = next[a].count + 1
      ]_vars

\* head is back on the address of the first sentinel, now a later node, under a
\* higher tag, and tail has been advanced too
C11_Witness ==
    /\ head.ptr \in FirstAddrs /\ gen[head.ptr] >= 2 /\ head.count >= 2
    /\ tail.count >= 2
    /\ \E a \in Addrs : nstate[a] = "live" /\ next[a].count = 1

\* C12: a CAS on head or on tail succeeds only if nothing was installed in that slot
\* since the thread loaded its snapshot of it, also when the slot holds the snapshot's
\* address again; a link CAS succeeds only on the node, still allocated, that the
\* thread's tail snapshot referred to.
C12_AbaDefence ==
    [][\A t \in Threads :
          /\ (pc[t] = "D_CasHead" /\ pc'[t] # pc[t] /\ head' # head)
                => snapCas[t].h = casCount.h
          /\ (pc[t] \in {"E_HelpCas", "E_SwingTail", "D_HelpCas"} /\ pc'[t] # pc[t]
                /\ tail' # tail) => snapCas[t].t = casCount.t
          /\ (pc[t] = "E_LinkCas" /\ pc'[t] = "E_SwingTail")
                => Valid(ltail[t].ptr, snapGen[t].p)
      ]_vars

\* a thread is about to CAS tail, which holds the address of its snapshot again, for
\* a later node and under another tag
C12_Witness ==
    \E t \in Threads :
        /\ pc[t] = "E_SwingTail"
        /\ tail.ptr = ltail[t].ptr /\ tail.count # ltail[t].count
        /\ gen[tail.ptr] > snapGen[t].p

\* C13: the list from head ends in a node whose next is null, and tail references
\* that last node or the node just before it.
C13_TailLagsAtMostOne ==
    /\ next[LastNode].ptr = NullRef
    /\ \E i \in DOMAIN Chain : i >= Len(Chain) - 1 /\ tail.ptr = Chain[i]

\* tail is one link behind the end of a list of three nodes while a Dequeue runs
C13_Witness ==
    /\ Len(Chain) >= 3
    /\ tail.ptr = Chain[Len(Chain) - 1]
    /\ \E t \in Threads : InDequeue(t) /\ pc[t] # "D_Return"

\* C14: following next from the node head references meets allocated nodes, no node
\* twice, and ends at a node whose next is null; and the next reference of a node,
\* once not null, stays what it is as long as the node is allocated.
C14_ChainWellFormed ==
    /\ [](/\ next[LastNode].ptr = NullRef
          /\ \A i \in DOMAIN Chain : nstate[Chain[i]] = "live")
    /\ [][\A a \in Addrs :
            (gen'[a] = gen[a] /\ nstate'[a] # "free" /\ next[a].ptr # NullRef)
                => next'[a].ptr = next[a].ptr
         ]_vars

\* a list of three nodes, one of them allocated at a reused address and linked to
\* its successor
C14_Witness ==
    /\ Len(Chain) = MaxNodes
    /\ \E i \in DOMAIN Chain : gen[Chain[i]] >= 2 /\ next[Chain[i]].ptr # NullRef

\* C15: RetireHazard is called only by a Dequeue whose CAS on head succeeded, for the
\* sentinel that CAS replaced, an allocated node not retired before; nothing else
\* retires a node; and a node stays in its stage or moves to the next one, in the
\* order unlinked, linked, sentinel, retired, freed.
C15_RetireOnce ==
    [][/\ \A t \in Threads :
            (pc[t] = "D_Retire" /\ pc'[t] # pc[t]) =>
                /\ unlinked[t] = lhead[t].ptr /\ head.ptr # lhead[t].ptr
                /\ nstate[lhead[t].ptr] = "live" /\ gen[lhead[t].ptr] = snapGen[t].p
       /\ \A a \in Addrs :
            /\ (nstate'[a] = "retired" /\ nstate[a] # "retired") =>
                    \E t \in Threads : /\ pc[t] = "D_Retire" /\ pc'[t] = "D_Return"
                                        /\ unlinked[t] = a
            /\ Stage(a) # 0
            /\ IF gen'[a] = gen[a] THEN Stage(a)' \in {Stage(a), Stage(a) + 1}
                                  ELSE Stage(a)' = 1
      ]_vars

\* a Dequeue has retired the sentinel its CAS replaced, and the other thread's
\* Dequeue, whose CAS on head failed after it copied a value, starts over
C15_Witness ==
    \E t \in Threads : \E u \in Threads \ {t} :
        /\ pc[t] = "D_Return" /\ result[t] \in Vals
        /\ nstate[lhead[t].ptr] = "retired" /\ gen[lhead[t].ptr] = snapGen[t].p
        /\ pc[u] = "D_LoadHead" /\ ret[u] \in Vals

\* C16: while a thread stays between its successful link CAS and its CAS on tail,
\* with tail still behind its node, an Enqueue of another thread leads to tail
\* referencing that node; a helping CAS that succeeds then installs exactly that node;
\* and every call of another thread returns or reaches that same point of its own.
C16_Helping ==
    /\ \A t \in Threads : \A u \in Threads \ {t} :
        /\ (/\ pc[t] = "E_SwingTail" /\ PtrEq(tail, ltail[t])
            /\ pc[u] \in {"E_LoadTail", "E_AddHazard", "E_Validate", "E_LoadNext",
                          "E_LinkCas", "E_HelpCas"}) ~> (tail.ptr = node[t])
        /\ (InCall(u) /\ pc[u] # "E_SwingTail")
                ~> (~InCall(u) \/ pc[u] = "E_SwingTail")
    /\ [][\A t \in Threads : \A u \in Threads \ {t} :
            (/\ pc[t] = "E_SwingTail" /\ PtrEq(tail, ltail[t])
             /\ pc[u] \in {"E_HelpCas", "D_HelpCas"} /\ pc'[u] # pc[u]
             /\ tail' # tail) => tail'.ptr = node[t]
         ]_vars

\* a thread is still before its CAS on tail; meanwhile the other thread has linked a
\* node behind its node and has dequeued its value
C16_Witness ==
    \E t \in Threads : \E u \in Threads \ {t} :
        /\ pc[t] = "E_SwingTail"
        /\ head.ptr = node[t] /\ next[node[t]].ptr # NullRef
        /\ pc[u] = "D_Return" /\ result[u] = value[node[t]]

\* C17: a thread about to dereference its tail snapshot (Enqueue), its head snapshot
\* or its next snapshot (Dequeue) publishes that node, in slot 0, 0 and 1, and a
\* re-validation made after the publication has confirmed the snapshot of tail or of
\* head; a re-validation that finds the slot changed sends the thread back to the
\* load of the slot.
C17_PublishThenValidate ==
    /\ [](\A t \in Threads :
            /\ pc[t] \in {"E_LoadNext", "E_LinkCas"} =>
                    Slot0 \in hpOk[t] /\ hazard[t][Slot0] = ltail[t].ptr
            /\ pc[t] = "D_LoadNext" =>
                    Slot0 \in hpOk[t] /\ hazard[t][Slot0] = lhead[t].ptr
            /\ pc[t] = "D_ReadValue" =>
                    /\ {Slot0, Slot1} \subseteq hpOk[t]
                    /\ hazard[t][Slot0] = lhead[t].ptr
                    /\ hazard[t][Slot1] = lnext[t].ptr)
    /\ [][\A t \in Threads :
            /\ (pc[t] = "E_Validate" /\ ltail[t] # tail /\ pc'[t] # pc[t])
                    => pc'[t] = "E_LoadTail"
            /\ (pc[t] \in {"D_Validate", "D_Revalidate"} /\ lhead[t] # head
                    /\ pc'[t] # pc[t]) => pc'[t] = "D_LoadHead"
         ]_vars

\* a Dequeue is about to copy the value of a node that has been retired since the
\* re-validation
C17_Witness ==
    \E t \in Threads : pc[t] = "D_ReadValue" /\ nstate[lnext[t].ptr] = "retired"

\* C18: a thread outside a call, at the return of Enqueue or of Dequeue, or about to
\* call RetireHazard publishes nothing; a thread publishes in at most 2 slots; and a
\* thread inside Enqueue publishes nothing in slot 1.
C18_HazardsReleased ==
    \A t \in Threads :
        /\ pc[t] \in {"idle", "E_Return", "D_Return", "D_Retire"}
                => \A s \in DOMAIN hazard[t] : hazard[t][s] = NullRef
        /\ Cardinality({s \in DOMAIN hazard[t] : hazard[t][s] # NullRef}) <= 2
        /\ InEnqueue(t) => hazard[t][Slot1] = NullRef

\* a Dequeue is about to retire the old sentinel, which the other thread, inside a
\* Dequeue with both slots in use, still publishes
C18_Witness ==
    \E t \in Threads : \E u \in Threads \ {t} :
        /\ pc[t] = "D_Retire"
        /\ InDequeue(u) /\ hazard[u][Slot0] = lhead[t].ptr /\ hazard[u][Slot1] # NullRef

\* C19: the node tail references is on the list that starts at the node head
\* references, and both nodes are allocated and not retired.
C19_TailNotBehindHead ==
    /\ OnList(tail.ptr)
    /\ nstate[head.ptr] = "live"
    /\ nstate[tail.ptr] = "live"

\* a Dequeue has found its head snapshot, a node that once held a value, to be the
\* node of its tail snapshot with a successor, and both snapshots are still current
C19_Witness ==
    \E t \in Threads :
        /\ pc[t] = "D_HelpCas"
        /\ PtrEq(head, lhead[t]) /\ PtrEq(tail, ltail[t])
        /\ head.count >= 1 /\ next[head.ptr].ptr # NullRef

\* C20: when an Enqueue returns, and already when its final CAS finds tail changed,
\* tail references the node the call linked or a node linked later; and when every
\* call has returned, tail references the last node of the list, whose next is null.
C20_TailAdvancedAtReturn ==
    /\ \A t \in Threads :
        /\ pc[t] = "E_Return" => linkSeq[tail.ptr] >= linkedAs[t]
        /\ (pc[t] = "E_SwingTail" /\ tail # ltail[t]) => linkSeq[tail.ptr] >= linkedAs[t]
    /\ (\A t \in Threads : pc[t] \in {"idle", "E_Return", "D_Return"})
            => (tail.ptr = LastNode /\ next[tail.ptr].ptr = NullRef)

\* an Enqueue returns after its final CAS failed: tail is already on a node linked
\* behind its own, and no other call is in progress
C20_Witness ==
    \E t \in Threads :
        /\ pc[t] = "E_Return" /\ linkSeq[tail.ptr] > linkedAs[t]
        /\ \A u \in Threads \ {t} : pc[u] = "idle"

====
